---- MODULE Spec2Model ----
(***************************************************************************)
(* A model of earthaccess.widgets.SearchWidget: the map widget that turns  *)
(* drawn regions into search parameters, tabulates granule records         *)
(* (to_geopandas) and renders one map layer per dataset (explore).         *)
(*                                                                         *)
(* Strings that the code transforms character by character (dictionary     *)
(* keys, column names, colours) are sequences of one-character strings.    *)
(* Python objects with identity (layers, controls, dicts) carry an id.     *)
(***************************************************************************)
EXTENDS Integers, Sequences, FiniteSets, TLC

VARIABLES
    heap,   \* the dict objects that hold search parameters, by object id
    self,   \* the SearchWidget instances: widget -> its attributes and map
    last    \* the most recent call: operation, widget, argument, result

vars == <<heap, self, last>>

----------------------------------------------------------------------------
\* Bounds of the model

\* longest result list handed to to_geopandas in SpecTable
MaxRows == 2
\* most result layers a widget accumulates before explore is no longer called
MaxLayers == 12

----------------------------------------------------------------------------
\* Names: keys of granule records (R_...) and column names (K_...)

K_size == <<"s", "i", "z", "e">>
K_concept_id == <<"c", "o", "n", "c", "e", "p", "t", "_", "i", "d">>
K_dataset_id == <<"d", "a", "t", "a", "s", "e", "t", "-", "i", "d">>
K_native_id == <<"n", "a", "t", "i", "v", "e", "-", "i", "d">>
K_provider_id == <<"p", "r", "o", "v", "i", "d", "e", "r", "-", "i", "d">>
K_related_urls == <<"_", "r", "e", "l", "a", "t", "e", "d", "_", "u", "r", "l", "s">>
K_beginning_date_time == <<"_", "b", "e", "g", "i", "n", "n", "i", "n", "g", "_", "d", "a", "t", "e", "_", "t", "i", "m", "e">>
K_ending_date_time == <<"_", "e", "n", "d", "i", "n", "g", "_", "d", "a", "t", "e", "_", "t", "i", "m", "e">>
K_geometry == <<"g", "e", "o", "m", "e", "t", "r", "y">>
K_bounding_rectangles == <<"_", "b", "o", "u", "n", "d", "i", "n", "g", "_", "r", "e", "c", "t", "a", "n", "g", "l", "e", "s">>
R_meta == <<"m", "e", "t", "a">>
R_umm == <<"u", "m", "m">>
R_concept_id == <<"c", "o", "n", "c", "e", "p", "t", "-", "i", "d">>
R_RelatedUrls == <<"R", "e", "l", "a", "t", "e", "d", "U", "r", "l", "s">>
R_TemporalExtent == <<"T", "e", "m", "p", "o", "r", "a", "l", "E", "x", "t", "e", "n", "t">>
R_RangeDateTime == <<"R", "a", "n", "g", "e", "D", "a", "t", "e", "T", "i", "m", "e">>
R_BeginningDateTime == <<"B", "e", "g", "i", "n", "n", "i", "n", "g", "D", "a", "t", "e", "T", "i", "m", "e">>
R_EndingDateTime == <<"E", "n", "d", "i", "n", "g", "D", "a", "t", "e", "T", "i", "m", "e">>
R_SpatialExtent == <<"S", "p", "a", "t", "i", "a", "l", "E", "x", "t", "e", "n", "t">>
R_HorizontalSpatialDomain == <<"H", "o", "r", "i", "z", "o", "n", "t", "a", "l", "S", "p", "a", "t", "i", "a", "l", "D", "o", "m", "a", "i", "n">>
R_Geometry == <<"G", "e", "o", "m", "e", "t", "r", "y">>
R_BoundingRectangles == <<"B", "o", "u", "n", "d", "i", "n", "g", "R", "e", "c", "t", "a", "n", "g", "l", "e", "s">>
R_GPolygons == <<"G", "P", "o", "l", "y", "g", "o", "n", "s">>
R_Points == <<"P", "o", "i", "n", "t", "s">>
R_GranuleUR == <<"G", "r", "a", "n", "u", "l", "e", "U", "R">>
UpperChars == <<"A", "B", "C", "D", "E", "F", "G", "H", "I", "J", "K", "L", "M", "N", "O", "P", "Q", "R", "S", "T", "U", "V", "W", "X", "Y", "Z">>
LowerChars == <<"a", "b", "c", "d", "e", "f", "g", "h", "i", "j", "k", "l", "m", "n", "o", "p", "q", "r", "s", "t", "u", "v", "w", "x", "y", "z">>

----------------------------------------------------------------------------
\* Sequence helpers

InSeq(s, x) == \E i \in 1..Len(s) : s[i] = x

Indices(s) == [i \in 1..Len(s) |-> i]

RECURSIVE Flatten(_)
Flatten(ss) ==
    IF Len(ss) = 0 THEN <<>> ELSE Head(ss) \o Flatten(Tail(ss))

RECURSIVE SumSeq(_)
SumSeq(s) ==
    IF Len(s) = 0 THEN 0 ELSE Head(s) + SumSeq(Tail(s))

\* list(x.unique()) and dict-key union: the elements of s in first-seen order
Unique(s) ==
    LET first == SelectSeq(Indices(s), LAMBDA i : \A j \in 1..(i - 1) : s[j] # s[i])
    IN  [k \in 1..Len(first) |-> s[first[k]]]

----------------------------------------------------------------------------
\* Granule records.  A record is an ordered mapping (a Python dict): a
\* sequence of top-level entries in key order.  An entry is a scalar or list
\* leaf, or a nested mapping given by its leaves in depth-first key order,
\* each with its key path below the entry.

Leaf(key, val) == [key |-> key, nested |-> FALSE, val |-> val, sub |-> <<>>]

Nested(key, sub) == [key |-> key, nested |-> TRUE, val |-> <<>>, sub |-> sub]

At(path, val) == [path |-> path, val |-> val]

\* pandas.json_normalize on one record: the top-level non-mapping values
\* first, in key order, then the leaves of the nested mappings, depth first
NormaliseRecord(rec) ==
    LET tops == SelectSeq(rec, LAMBDA e : ~e.nested)
        subs == SelectSeq(rec, LAMBDA e : e.nested)
    IN  [i \in 1..Len(tops) |-> At(<<tops[i].key>>, tops[i].val)]
        \o Flatten([i \in 1..Len(subs) |->
                      [j \in 1..Len(subs[i].sub) |->
                         At(<<subs[i].key>> \o subs[i].sub[j].path,
                            subs[i].sub[j].val)]])

NaN == [nan |-> TRUE, v |-> <<>>]

Cell(v) == [nan |-> FALSE, v |-> v]

\* pandas.json_normalize(list(results)): one row per record, one column per
\* key path, the columns in first-seen order over the records; a record
\* without a path has NaN there.  An empty list gives a frame without columns.
json_normalize(results) ==
    LET recs == [i \in 1..Len(results) |-> NormaliseRecord(results[i])]
        cols == Unique(Flatten([i \in 1..Len(recs) |->
                                  [j \in 1..Len(recs[i]) |-> recs[i][j].path]]))
        value(r, c) ==
            IF \E j \in 1..Len(r) : r[j].path = c
            THEN Cell(r[CHOOSE j \in 1..Len(r) : r[j].path = c].val)
            ELSE NaN
    IN  [columns |-> cols,
         rows    |-> [i \in 1..Len(recs) |->
                        [k \in 1..Len(cols) |-> value(recs[i], cols[k])]]]

----------------------------------------------------------------------------
\* _flattent_column_names

IsUpper(c) == \E i \in 1..Len(UpperChars) : UpperChars[i] = c

Lower(c) ==
    IF IsUpper(c)
    THEN LowerChars[CHOOSE i \in 1..Len(UpperChars) : UpperChars[i] = c]
    ELSE c

\* re.sub('([A-Z]+)', r'_\1', s): an underscore before each maximal run of
\* capitals
RECURSIVE ReSubCapsFrom(_, _)
ReSubCapsFrom(s, i) ==
    IF i > Len(s) THEN <<>>
    ELSE (IF IsUpper(s[i]) /\ (i = 1 \/ ~IsUpper(s[i - 1]))
          THEN <<"_", s[i]>>
          ELSE <<s[i]>>) \o ReSubCapsFrom(s, i + 1)

StrLower(s) == [i \in 1..Len(s) |-> Lower(s[i])]

\* col.split(".")[-1]: the last segment of the column's key path
LastSegment(path) == path[Len(path)]

FlattenName(col) == StrLower(ReSubCapsFrom(LastSegment(col), 1))

_flattent_column_names(df) ==
    [df EXCEPT !.columns = [k \in 1..Len(df.columns) |-> FlattenName(df.columns[k])]]

----------------------------------------------------------------------------
\* _get_shapely_object

NoShape == [kind |-> "None", ring |-> <<>>]

\* shapely closes an open ring by repeating its first point
CloseRing(pts) ==
    IF Len(pts) > 0 /\ pts[1] # pts[Len(pts)] THEN Append(pts, pts[1]) ELSE pts

\* shapely.geometry.box(minx, miny, maxx, maxy, ccw=True)
Box(minx, miny, maxx, maxy) ==
    [kind |-> "Polygon",
     ring |-> CloseRing(<< <<maxx, miny>>, <<maxx, maxy>>,
                           <<minx, maxy>>, <<minx, miny>> >>)]

GeometryPath == <<R_SpatialExtent, R_HorizontalSpatialDomain, R_Geometry>>

\* the leaves of result['umm']['SpatialExtent']['HorizontalSpatialDomain']
\* ['Geometry'], by the key under Geometry; empty when a level is missing
GeometryLeaves(result) ==
    LET umm == SelectSeq(result, LAMBDA e : e.key = R_umm /\ e.nested)
    IN  IF Len(umm) = 0 THEN <<>>
        ELSE SelectSeq(umm[1].sub,
                       LAMBDA l : /\ Len(l.path) = Len(GeometryPath) + 1
                                  /\ SubSeq(l.path, 1, Len(GeometryPath)) = GeometryPath)

\* Every exception raised inside the try block is caught and printed, and
\* the shape stays None.
_get_shapely_object(result) ==
    LET geo    == GeometryLeaves(result)
        has(k) == \E i \in 1..Len(geo) : LastSegment(geo[i].path) = k
        get(k) == geo[CHOOSE i \in 1..Len(geo) : LastSegment(geo[i].path) = k].val
    IN  IF Len(geo) = 0 THEN NoShape                       \* KeyError
        ELSE IF has(R_BoundingRectangles)
        THEN IF Len(get(R_BoundingRectangles)) = 0 THEN NoShape   \* IndexError
             ELSE LET b == get(R_BoundingRectangles)[1]
                  IN  Box(b.West, b.South, b.East, b.North)
        ELSE IF has(R_GPolygons)
        THEN IF Len(get(R_GPolygons)) = 0 THEN NoShape            \* IndexError
             ELSE LET points == get(R_GPolygons)[1].Boundary.Points
                      ring   == [i \in 1..Len(points) |->
                                   <<points[i].Longitude, points[i].Latitude>>]
                  IN  IF Len(ring) \in {1, 2} THEN NoShape        \* ValueError
                      ELSE [kind |-> "Polygon", ring |-> CloseRing(ring)]
        ELSE NoShape                                       \* ValueError

----------------------------------------------------------------------------
\* to_geopandas

default_fields ==
    <<K_size, K_concept_id, K_dataset_id, K_native_id, K_provider_id,
      K_related_urls, K_beginning_date_time, K_ending_date_time, K_geometry>>

AllowedLinkTypes ==
    {"GET DATA", "GET DATA VIA DIRECT ACCESS", "GET RELATED VISUALIZATION"}

Raise(exc) == [raised |-> exc, columns |-> <<>>, rows |-> <<>>, crs |-> ""]

ColumnIndex(df, name) == CHOOSE k \in 1..Len(df.columns) : df.columns[k] = name

\* a projection that takes the allow-list's columns in the allow-list's
\* order (results_df[[f for f in fields if f in results_df.columns]])
DropColumnsReindexed(df, fields) ==
    LET keep == SelectSeq(Unique(fields), LAMBDA f : InSeq(df.columns, f))
    IN  [columns |-> keep,
         rows    |-> [i \in 1..Len(df.rows) |->
                        [k \in 1..Len(keep) |->
                            df.rows[i][ColumnIndex(df, keep[k])]]]]

\* results_df.drop(columns=[col for col in results_df.columns if col not in fields])
DropColumns(df, fields) ==
    LET keep == SelectSeq(Indices(df.columns), LAMBDA k : InSeq(fields, df.columns[k]))
    IN  [columns |-> [k \in 1..Len(keep) |-> df.columns[keep[k]]],
         rows    |-> [i \in 1..Len(df.rows) |->
                        [k \in 1..Len(keep) |-> df.rows[i][keep[k]]]]]

\* a frame that keeps only the rows that have a geometry
SetGeometryDropsNull(df, geometries) ==
    LET keep == SelectSeq(Indices(df.rows), LAMBDA i : geometries[i].kind # "None")
    IN  [columns |-> Append(df.columns, K_geometry),
         rows    |-> [k \in 1..Len(keep) |->
                        Append(df.rows[keep[k]], geometries[keep[k]])]]

\* geopandas.GeoDataFrame(df, geometry=geometries, crs=...): the geometry
\* column is assigned like any column, in place when the frame has one of
\* that name and at the end otherwise
SetGeometry(df, geometries) ==
    IF InSeq(df.columns, K_geometry)
    THEN [df EXCEPT !.rows = [i \in 1..Len(df.rows) |->
              [df.rows[i] EXCEPT ![ColumnIndex(df, K_geometry)] = geometries[i]]]]
    ELSE [columns |-> Append(df.columns, K_geometry),
          rows    |-> [i \in 1..Len(df.rows) |-> Append(df.rows[i], geometries[i])]]

to_geopandas(results, fields) ==
    LET flat    == _flattent_column_names(json_normalize(results))
        allow   == IF Len(fields) = 0 THEN default_fields ELSE fields
        dropped == DropColumns(flat, allow)
    IN  IF ~InSeq(dropped.columns, K_related_urls) THEN Raise("KeyError")
        ELSE
        LET u == ColumnIndex(dropped, K_related_urls)
        IN  IF \E i \in 1..Len(dropped.rows) : dropped.rows[i][u].nan
            THEN Raise("TypeError")
            ELSE
            LET filtered == [dropped EXCEPT !.rows = [i \in 1..Len(dropped.rows) |->
                    [dropped.rows[i] EXCEPT ![u] =
                        Cell(SelectSeq(dropped.rows[i][u].v,
                                       LAMBDA l : l.Type \in AllowedLinkTypes))]]]
                geometries == [i \in 1..Len(results) |-> _get_shapely_object(results[i])]
                gdf == SetGeometry(filtered, geometries)
            IN  [raised |-> "none", columns |-> gdf.columns, rows |-> gdf.rows,
                 crs |-> "EPSG:4326"]

----------------------------------------------------------------------------
\* Inputs: granule records as the query collaborator returns them

Link(scheme, rest, type) == [URL |-> [scheme |-> scheme, rest |-> rest], Type |-> type]

GranuleLinks ==
    << Link("https", "data", "GET DATA"),
       Link("https", "docs", "VIEW RELATED INFORMATION"),
       Link("https", "browse", "GET RELATED VISUALIZATION") >>

SpatialKinds == <<"bbox", "gpolygon", "missing", "points">>

\* the leaves below umm.SpatialExtent of granule n, by the kind of its
\* spatial metadata
SpatialLeaves(n, spatial) ==
    CASE spatial = "bbox" ->
           << At(GeometryPath \o <<R_BoundingRectangles>>,
                 << [West |-> n, South |-> 0, East |-> n + 2, North |-> 1] >>) >>
      [] spatial = "gpolygon" ->
           << At(GeometryPath \o <<R_GPolygons>>,
                 << [Boundary |-> [Points |->
                        << [Longitude |-> n, Latitude |-> 0],
                           [Longitude |-> n + 1, Latitude |-> 0],
                           [Longitude |-> n, Latitude |-> 1] >>]] >>) >>
      [] spatial = "points" ->
           << At(GeometryPath \o <<R_Points>>,
                 << [Longitude |-> n, Latitude |-> 0] >>) >>
      [] OTHER -> <<>>

\* size in thousandths of a megabyte
GranuleSize(n) == 10000 * n + 4

\* Granule number n of dataset ds; `order` is the key order of the record
Granule(n, ds, spatial, order) ==
    IF order = 1
    THEN << Nested(R_meta, << At(<<R_concept_id>>, n), At(<<K_native_id>>, n),
                              At(<<K_provider_id>>, 7) >>),
            Nested(R_umm, << At(<<R_TemporalExtent, R_RangeDateTime, R_BeginningDateTime>>, n),
                             At(<<R_TemporalExtent, R_RangeDateTime, R_EndingDateTime>>, n + 1),
                             At(<<R_GranuleUR>>, n) >>
                          \o SpatialLeaves(n, spatial)
                          \o << At(<<R_RelatedUrls>>, GranuleLinks) >>),
            Leaf(K_size, GranuleSize(n)),
            Leaf(K_dataset_id, ds) >>
    ELSE << Leaf(K_dataset_id, ds),
            Nested(R_umm, << At(<<R_RelatedUrls>>, GranuleLinks) >>
                          \o SpatialLeaves(n, spatial)
                          \o << At(<<R_TemporalExtent, R_RangeDateTime, R_EndingDateTime>>, n + 1),
                                At(<<R_TemporalExtent, R_RangeDateTime, R_BeginningDateTime>>, n) >>),
            Leaf(K_size, GranuleSize(n)),
            Nested(R_meta, << At(<<K_provider_id>>, 7), At(<<K_native_id>>, n),
                              At(<<R_concept_id>>, n) >>) >>

Datasets == {1, 2}

GranuleKinds == Datasets \X (1..Len(SpatialKinds)) \X {1, 2}

\* the result list described by kinds: record i is of dataset kinds[i][1],
\* spatial kind kinds[i][2] and key order kinds[i][3]
MakeResults(kinds) ==
    [i \in 1..Len(kinds) |->
        Granule(i, kinds[i][1], SpatialKinds[kinds[i][2]], kinds[i][3])]

\* the fields arguments tried: omitted, an allow-list in another order than
\* the records' keys, and one without the related-urls column
FieldChoices ==
    << <<>>,
       <<K_geometry, K_bounding_rectangles, K_related_urls, K_size>>,
       <<K_size, K_dataset_id>> >>

----------------------------------------------------------------------------
\* Objects and the ipyleaflet map

None == [id |-> 0, kind |-> "None"]

\* `if x:` on an attribute that holds None or a widget object
Truthy(x) == x.kind # "None"

\* The identity of an object.  Objects are numbered within their class;
\* two live objects never share an identity.
Ref(o) == <<o.kind, o.id>>

Refs(objs) == {Ref(objs[i]) : i \in 1..Len(objs)}

\* the objects a widget holds a reference to
WidgetRefs(s) ==
    Refs(s.m.layers) \cup Refs(s.m.controls) \cup Refs(s.active_layers)
    \cup {Ref(s.current_geometry), Ref(s.overview), Ref(s.html), Ref(s.dc)}

\* the numbers of k new objects of a class: the smallest that no live object
\* of the class has
RECURSIVE FreshIds(_, _, _)
FreshIds(kind, used, k) ==
    IF k = 0 THEN <<>>
    ELSE LET n == CHOOSE i \in 1..(Cardinality(used) + 1) :
                     /\ <<kind, i>> \notin used
                     /\ \A j \in 1..(i - 1) : <<kind, j>> \in used
         IN  <<n>> \o FreshIds(kind, used \cup {<<kind, n>>}, k - 1)

FreshId(kind, used) == FreshIds(kind, used, 1)[1]

\* Map.add(layer): LayerException when the layer is already on the map
MapAdd(m, layer) ==
    IF Ref(layer) \in Refs(m.layers)
    THEN [m |-> m, raised |-> "LayerException"]
    ELSE [m |-> [m EXCEPT !.layers = Append(@, layer)], raised |-> "none"]

\* Map.remove_layer(layer): LayerException when the layer is not on the map
MapRemoveLayer(m, layer) ==
    IF Ref(layer) \notin Refs(m.layers)
    THEN [m |-> m, raised |-> "LayerException"]
    ELSE [m |-> [m EXCEPT !.layers = SelectSeq(@, LAMBDA l : Ref(l) # Ref(layer))],
          raised |-> "none"]

\* Map.remove_control(control): ControlException when it is not on the map
MapRemoveControl(m, control) ==
    IF Ref(control) \notin Refs(m.controls)
    THEN [m |-> m, raised |-> "ControlException"]
    ELSE [m |-> [m EXCEPT !.controls = SelectSeq(@, LAMBDA c : Ref(c) # Ref(control))],
          raised |-> "none"]

\* for l in layers: m.remove_layer(l) -- stops at the first exception
RECURSIVE RemoveLayers(_, _)
RemoveLayers(m, layers) ==
    IF Len(layers) = 0 THEN [m |-> m, raised |-> "none"]
    ELSE LET r == MapRemoveLayer(m, Head(layers))
         IN  IF r.raised # "none" THEN r ELSE RemoveLayers(r.m, Tail(layers))

----------------------------------------------------------------------------
\* Search parameters: a dict object maps the keys polygon, point and line
\* to a value, or does not hold the key

ParamKeys == {"polygon", "point", "line"}

Absent == [t |-> "absent", v |-> <<>>]

EmptyStr == [t |-> "str", v |-> <<>>]

Coords(c) == [t |-> "coords", v |-> c]

NoneValue == [t |-> "None", v |-> <<>>]

EmptyDict == [k \in ParamKeys |-> Absent]

----------------------------------------------------------------------------
\* __init__ and _build_widget

Projections == {"global", "south", "north"}

proj_dict ==
    [global |-> [basemap |-> "Esri.WorldImagery", crs |-> "EPSG3857",
                 map_center |-> <<0, 0>>],
     south  |-> [basemap |-> "NASAGIBS.BlueMarble3031", crs |-> "EPSG3031.NASAGIBS",
                 map_center |-> <<-90, 0>>],
     north  |-> [basemap |-> "NASAGIBS.BlueMarble3413", crs |-> "EPSG3413.NASAGIBS",
                 map_center |-> <<90, 0>>]]

\* the id of the dict object that is the default value of __init__'s params:
\* Python evaluates the default once, when the function is defined
DefaultParams == <<"default", 0>>

\* the dict object a caller passes to the constructor of widget w
OwnParams(w) == <<"params", w>>

DictIds == {DefaultParams} \cup {OwnParams(w) : w \in {1, 2}}

\* The widget constructed as number w, without a map argument (the widget
\* creates its own map): its attributes after __init__ and _build_widget;
\* params is the dict object bound to params
_build_widget(w, params, projection) ==
    LET obj(kind) == [id |-> w, kind |-> kind]
    IN  [current_geometry |-> None,
         active_layers    |-> <<>>,
         roi              |-> Coords(<<>>),
         overview         |-> None,
         html             |-> [id |-> w, kind |-> "HTML", value |-> "File Info"],
         map_projection   |-> projection,
         search_params    |-> params,
         dc               |-> [id |-> w, kind |-> "DrawControl", data |-> <<>>],
         m |-> [center   |-> proj_dict[projection].map_center,
                crs      |-> proj_dict[projection].crs,
                layers   |-> << [id |-> w, kind |-> "TileLayer",
                                 name |-> proj_dict[projection].basemap] >>,
                controls |-> << obj("ZoomControl"), obj("AttributionControl"),
                                obj("LayersControl"), obj("FullScreenControl"),
                                obj("MeasureControl"), obj("DrawControl") >>]]

\* if "polygon" not in self.search_params: self.search_params["polygon"] = ""
InitDict(d) ==
    IF d["polygon"].t = "absent" THEN [d EXCEPT !["polygon"] = EmptyStr] ELSE d

----------------------------------------------------------------------------
\* _orient_polygon and _extract_geometry_info

Reverse(s) == [i \in 1..Len(s) |-> s[Len(s) + 1 - i]]

\* twice the signed area of a closed ring (shapely's signed_area)
SignedArea2(ring) ==
    SumSeq([i \in 1..(Len(ring) - 1) |->
               ring[i][1] * ring[i + 1][2] - ring[i + 1][1] * ring[i][2]])

\* list(orient(Polygon(coords)).exterior.coords): the closed exterior ring,
\* counter-clockwise
_orient_polygon(coords) ==
    LET ring == CloseRing(coords)
    IN  IF SignedArea2(ring) >= 0 THEN ring ELSE Reverse(ring)

\* GeoJSON geometry objects: every kind but GeometryCollection has a
\* "coordinates" member
Geometry(type, coordinates) ==
    [type |-> type, has_coordinates |-> TRUE, coordinates |-> coordinates]

GeometryCollection ==
    [type |-> "GeometryCollection", has_coordinates |-> FALSE, coordinates |-> <<>>]

\* _extract_geometry_info that starts from fresh parameters: only the key
\* of the region just drawn is kept
_extract_geometry_info_resets(d, geometry) ==
    LET key == CASE geometry.type = "Polygon" -> "polygon"
                 [] geometry.type = "Point" -> "point"
                 [] OTHER -> "line"
        val == IF geometry.type = "Polygon"
               THEN Coords(_orient_polygon(geometry.coordinates[1]))
               ELSE Coords(geometry.coordinates)
    IN  [dict |-> [k \in ParamKeys |-> IF k = key THEN val ELSE Absent],
         ret |-> val, raised |-> "none"]

\* d is the dict self.search_params refers to; the result carries the dict
\* after the call, the value returned and the exception raised
_extract_geometry_info(d, geometry) ==
    IF ~geometry.has_coordinates
    THEN [dict |-> d, ret |-> NoneValue, raised |-> "KeyError"]
    ELSE
    IF geometry.type = "Polygon"
    THEN LET coords == _orient_polygon(geometry.coordinates[1])
         IN  [dict |-> [d EXCEPT !["polygon"] = Coords(coords)],
              ret |-> Coords(coords), raised |-> "none"]
    ELSE IF geometry.type = "Point"
    THEN [dict |-> [d EXCEPT !["point"] = Coords(geometry.coordinates)],
          ret |-> Coords(geometry.coordinates), raised |-> "none"]
    ELSE IF geometry.type = "LineString"
    THEN [dict |-> [d EXCEPT !["line"] = Coords(geometry.coordinates)],
          ret |-> Coords(geometry.coordinates), raised |-> "none"]
    ELSE [dict |-> d, ret |-> NoneValue, raised |-> "none"]

----------------------------------------------------------------------------
\* _handle_draw

\* ipyleaflet.GeoJSON(name="ROI", data=geo_json, style=...)
GeoJSON(id, geo_json) ==
    [id |-> id, kind |-> "GeoJSON", name |-> "ROI", data |-> geo_json, color |-> "red"]

\* _handle_draw without lines 162-163: the region drawn before stays on the
\* map
_handle_draw_keeps_region(s, d, others, geo_json) ==
    LET r1  == RemoveLayers(s.m, s.active_layers)
        new == GeoJSON(FreshId("GeoJSON", WidgetRefs(s) \cup others), geo_json)
        e   == _extract_geometry_info(d, geo_json.geometry)
    IN  [self |-> [s EXCEPT !.m.layers = Append(r1.m.layers, new),
                            !.active_layers = <<>>,
                            !.dc.data = <<>>,
                            !.current_geometry = new,
                            !.roi = e.ret],
         dict |-> e.dict, raised |-> e.raised]

\* s is the widget, d the dict its search_params refers to, others the
\* objects the rest of the program holds.  The result carries the
\* widget and the dict as the call leaves them and the exception it raised.
_handle_draw(s, d, others, geo_json) ==
    LET r1 == RemoveLayers(s.m, s.active_layers)
    IN  IF r1.raised # "none"
        THEN [self |-> [s EXCEPT !.m = r1.m], dict |-> d, raised |-> r1.raised]
        ELSE
        LET s1 == [s EXCEPT !.m = r1.m, !.active_layers = <<>>, !.dc.data = <<>>]
            r2 == IF Truthy(s1.current_geometry)
                  THEN MapRemoveLayer(s1.m, s1.current_geometry)
                  ELSE [m |-> s1.m, raised |-> "none"]
        IN  IF r2.raised # "none"
            THEN [self |-> s1, dict |-> d, raised |-> r2.raised]
            ELSE
            LET s2  == [s1 EXCEPT !.m = r2.m]
                new == GeoJSON(FreshId("GeoJSON", WidgetRefs(s2) \cup others), geo_json)
                s3  == [s2 EXCEPT !.current_geometry = new]
                e   == _extract_geometry_info(d, geo_json.geometry)
            IN  IF e.raised # "none"
                THEN [self |-> s3, dict |-> d, raised |-> e.raised]
                ELSE
                LET s4 == [s3 EXCEPT !.roi = e.ret]
                    r5 == MapAdd(s4.m, s4.current_geometry)
                IN  [self |-> [s4 EXCEPT !.m = r5.m], dict |-> e.dict,
                     raised |-> r5.raised]

----------------------------------------------------------------------------
\* update_html

\* link["URL"].startswith("https")
StartsWithHttps(url) == url.scheme = "https"

\* round(x / unit) to the nearest integer, ties to the even one (Python's
\* round), for x >= 0
RoundHalfEven(x, unit) ==
    LET q == x \div unit
        r == x % unit
    IN  IF 2 * r > unit \/ (2 * r = unit /\ q % 2 = 1) THEN q + 1 ELSE q

\* round(size, 2) of a size given in thousandths: the result in hundredths
Round2(size) == RoundHalfEven(size, 10)

\* update_html without lines 239-240: the control shown before stays on the
\* map
update_html_keeps_control(s, others, feature) ==
    LET new == [id |-> FreshId("WidgetControl", WidgetRefs(s) \cup others),
                kind |-> "WidgetControl"]
    IN  [self |-> [s EXCEPT !.html.value = feature.properties.native_id,
                            !.overview = new,
                            !.m.controls = Append(@, new)],
         raised |-> "none"]

\* feature is the hovered row; the result carries the widget as the call
\* leaves it and the exception it raised
update_html(s, others, feature) ==
    LET p       == feature.properties
        url     == SelectSeq(p._related_urls,
                       LAMBDA l : l.Type = "GET DATA" /\ StartsWithHttps(l.URL))
        preview == SelectSeq(p._related_urls,
                       LAMBDA l : l.Type = "GET RELATED VISUALIZATION"
                                  /\ StartsWithHttps(l.URL))
        browse  == IF Len(preview) > 1 THEN [t |-> "str", v |-> SubSeq(preview, 1, 2)]
                   ELSE IF Len(preview) = 1 THEN [t |-> "list", v |-> preview]
                   ELSE [t |-> "str", v |-> <<>>]
        s1 == [s EXCEPT !.html.value =
                  [native_id |-> p.native_id, size |-> Round2(p.size),
                   start |-> p._beginning_date_time, end |-> p._ending_date_time,
                   url |-> url, browse |-> browse]]
        r  == IF Truthy(s1.overview)
              THEN MapRemoveControl(s1.m, s1.overview)
              ELSE [m |-> s1.m, raised |-> "none"]
    IN  IF r.raised # "none"
        THEN [self |-> s1, raised |-> r.raised]
        ELSE
        LET s2  == [s1 EXCEPT !.m = r.m]
            new == [id |-> FreshId("WidgetControl", WidgetRefs(s2) \cup others),
                    kind |-> "WidgetControl"]
        IN  [self |-> [s2 EXCEPT !.overview = new,
                                 !.m.controls = Append(@, new)],
             raised |-> "none"]

----------------------------------------------------------------------------
\* explore

\* plt.cm.tab10.colors, each channel as a count of 255ths
tab10 ==
    << <<31, 119, 180>>, <<255, 127, 14>>, <<44, 160, 44>>, <<214, 39, 40>>,
       <<148, 103, 189>>, <<140, 86, 75>>, <<227, 119, 194>>, <<127, 127, 127>>,
       <<188, 189, 34>>, <<23, 190, 207>> >>

HexDigits ==
    <<"0", "1", "2", "3", "4", "5", "6", "7", "8", "9", "a", "b", "c", "d", "e", "f">>

\* matplotlib.colors.to_hex: "#rrggbb"
to_hex(c) ==
    <<"#">> \o Flatten([i \in 1..3 |->
                          <<HexDigits[(c[i] \div 16) + 1], HexDigits[(c[i] % 16) + 1]>>])

\* zip(xs, ys) stops at the end of the shorter sequence
Zip(xs, ys) ==
    [i \in 1..(IF Len(xs) < Len(ys) THEN Len(xs) ELSE Len(ys)) |-> <<xs[i], ys[i]>>]

\* the rows of gdf whose dataset-id equals p (NaN equals nothing)
RowsOf(gdf, p) ==
    LET c == ColumnIndex(gdf, K_dataset_id)
    IN  SelectSeq(Indices(gdf.rows),
                  LAMBDA i : ~p.nan /\ ~gdf.rows[i][c].nan /\ gdf.rows[i][c].v = p.v)

\* the ipyleaflet.GeoData layer of dataset p: its name carries the dataset
\* id, the number of granules and the total size, in hundredths of a GB
GeoData(id, gdf, p, c) ==
    LET rows  == RowsOf(gdf, p)
        sizes == [k \in 1..Len(rows) |->
                    IF gdf.rows[rows[k]][ColumnIndex(gdf, K_size)].nan THEN 0
                    ELSE gdf.rows[rows[k]][ColumnIndex(gdf, K_size)].v]
    IN  [id |-> id, kind |-> "GeoData",
         name |-> [dataset |-> p, count |-> Len(rows),
                   size |-> RoundHalfEven(SumSeq(sizes), 10 * 1024)],
         data |-> rows, color |-> c]

\* gdf is what self.to_geopandas(results) returned or raised; the result
\* carries the widget as the call leaves it, the layers the call added and
\* the exception it raised
explore(s, others, gdf) ==
        IF gdf.raised # "none"
        THEN [self |-> s, added |-> <<>>, raised |-> gdf.raised]
        ELSE IF ~InSeq(gdf.columns, K_dataset_id)
        THEN [self |-> s, added |-> <<>>, raised |-> "KeyError"]
        ELSE
        LET c           == ColumnIndex(gdf, K_dataset_id)
            dataset_ids == Unique([i \in 1..Len(gdf.rows) |-> gdf.rows[i][c]])
            colors      == [i \in 1..Len(tab10) |-> to_hex(tab10[i])]
            pairs       == Zip(dataset_ids, colors)
            ids         == FreshIds("GeoData", WidgetRefs(s) \cup others, Len(pairs))
            layers      == [k \in 1..Len(pairs) |->
                              GeoData(ids[k], gdf, pairs[k][1], pairs[k][2])]
        IN  IF Len(pairs) > 0 /\ ~InSeq(gdf.columns, K_size)
            THEN [self |-> s, added |-> <<>>, raised |-> "KeyError"]
            ELSE [self |-> [s EXCEPT !.active_layers = @ \o layers,
                                     !.m.layers = @ \o layers],
                  added |-> layers, raised |-> "none"]

----------------------------------------------------------------------------
\* Inputs of the widget's operations

Ring(pts) == <<pts>>

Feature(geometry) == [type |-> "Feature", geometry |-> geometry]

\* the shapes the DrawControl of _build_widget lets the user draw: polygons
\* and rectangles (Polygon), markers (Point) and polylines (LineString)
DrawnShapes ==
    << Feature(Geometry("Polygon",
           Ring(<< <<0, 0>>, <<2, 0>>, <<0, 2>>, <<0, 0>> >>))),
       Feature(Geometry("Polygon",
           Ring(<< <<0, 0>>, <<0, 2>>, <<2, 0>>, <<0, 0>> >>))),
       Feature(Geometry("Point", <<3, 4>>)),
       Feature(Geometry("LineString", << <<0, 0>>, <<1, 1>> >>)) >>

\* further GeoJSON features a direct call of the handler can be given
OtherShapes ==
    << Feature(Geometry("MultiPoint", << <<3, 4>>, <<5, 6>> >>)),
       Feature(GeometryCollection) >>

\* the dataset ids of the result lists given to explore: no result, two
\* datasets of which one comes back twice, and one more dataset than tab10
\* has colours
ExploreInputs ==
    << <<>>,
       <<2, 1, 2>>,
       [i \in 1..(Len(tab10) + 1) |-> i] >>

\* record i of such a list takes its spatial kind and key order in turn
ExploreResults(dss) ==
    MakeResults([i \in 1..Len(dss) |->
                    <<dss[i], ((i - 1) % Len(SpatialKinds)) + 1, (i % 2) + 1>>])

\* gdf = self.to_geopandas(results) for each of these result lists
ExploreTables ==
    [i \in 1..Len(ExploreInputs) |->
        to_geopandas(ExploreResults(ExploreInputs[i]), <<>>)]

\* rows a hover event can carry
HoverFeatures ==
    << [properties |->
          [native_id |-> 1, size |-> 10004, _beginning_date_time |-> 1,
           _ending_date_time |-> 2,
           _related_urls |-> << Link("https", "data", "GET DATA"),
                                Link("s3", "data", "GET DATA"),
                                Link("https", "b1", "GET RELATED VISUALIZATION"),
                                Link("https", "b2", "GET RELATED VISUALIZATION"),
                                Link("https", "b3", "GET RELATED VISUALIZATION") >>]],
       [properties |->
          [native_id |-> 2, size |-> 20015, _beginning_date_time |-> 2,
           _ending_date_time |-> 3,
           _related_urls |-> << Link("http", "b1", "GET RELATED VISUALIZATION"),
                                Link("https", "b2", "GET RELATED VISUALIZATION") >>]] >>

----------------------------------------------------------------------------
\* The state machine

Widgets == DOMAIN self

OtherRefs(w) == UNION {WidgetRefs(self[v]) : v \in Widgets \ {w}}

Call(op, w, arg, raised, ret) ==
    [op |-> op, w |-> w, arg |-> arg, raised |-> raised, ret |-> ret]

\* The state after constructing the widgets ws, each with or without a
\* params argument, with the default projection.  A widget constructed without
\* params is bound to the one default dict object.
Constructed(ws) ==
    \E given \in [ws -> BOOLEAN] :
        LET ref(w) == IF given[w] THEN OwnParams(w) ELSE DefaultParams
        IN  /\ self = [w \in ws |-> _build_widget(w, ref(w), "global")]
            /\ heap = [d \in DictIds |->
                         IF \E w \in ws : ref(w) = d THEN InitDict(EmptyDict)
                         ELSE EmptyDict]
            /\ last = Call("init", 0, <<>>, "none", <<>>)

Init == Constructed({1})

InitTwo == Constructed({1, 2})

\* _handle_draw(target, action, geo_json) on widget w, which the call finds
\* as s; the call is recorded with what the widget held when it was made
HandleDrawOf(w, s, geo_json) ==
    LET r == _handle_draw(s, heap[s.search_params], OtherRefs(w), geo_json)
    IN  /\ self' = [self EXCEPT ![w] = r.self]
        /\ heap' = [heap EXCEPT ![s.search_params] = r.dict]
        /\ last' = Call("draw", w, geo_json, r.raised,
                        [had_layers |-> Len(s.active_layers) > 0,
                         had_region |-> Truthy(s.current_geometry)])

\* a draw event of the widget's DrawControl: the control holds the shape
\* just drawn when it calls the handler
HandleDraw ==
    \E w \in Widgets, i \in 1..Len(DrawnShapes) :
        HandleDrawOf(w, [self[w] EXCEPT !.dc.data = Append(@, DrawnShapes[i])],
                     DrawnShapes[i])

\* _handle_draw called with a feature of any GeoJSON geometry kind
HandleDrawDirect ==
    \E w \in Widgets, i \in 1..Len(OtherShapes) :
        HandleDrawOf(w, self[w], OtherShapes[i])

\* explore(results): called while the widget holds at most MaxLayers layers
Explore ==
    \E w \in Widgets, i \in 1..Len(ExploreInputs) :
        LET r == explore(self[w], OtherRefs(w), ExploreTables[i])
        IN  /\ Len(r.self.active_layers) <= MaxLayers
            /\ self' = [self EXCEPT ![w] = r.self]
            /\ last' = Call("explore", w, ExploreInputs[i], r.raised, r.added)
            /\ UNCHANGED heap

\* a hover event of a result layer that is on the map
UpdateHtml ==
    \E w \in Widgets, i \in 1..Len(HoverFeatures) :
        LET r == update_html(self[w], OtherRefs(w), HoverFeatures[i])
        IN  /\ \E k \in 1..Len(self[w].m.layers) : self[w].m.layers[k].kind = "GeoData"
            /\ self' = [self EXCEPT ![w] = r.self]
            /\ last' = Call("hover", w, HoverFeatures[i], r.raised, <<>>)
            /\ UNCHANGED heap

\* A widget and a call of to_geopandas(results, fields) about to be made, on
\* a result list of at most MaxRows records
InitTable ==
    /\ self = [w \in {1} |-> _build_widget(w, DefaultParams, "global")]
    /\ heap = [d \in DictIds |-> IF d = DefaultParams THEN InitDict(EmptyDict)
                                  ELSE EmptyDict]
    /\ \E n \in 0..MaxRows, f \in 1..Len(FieldChoices) :
          \E kinds \in [1..n -> GranuleKinds] :
              last = Call("call", 1, [kinds |-> kinds, fields |-> FieldChoices[f]],
                          "none", <<>>)

\* the call returns or raises
ToGeopandas ==
    LET r == to_geopandas(MakeResults(last.arg.kinds), last.arg.fields)
    IN  /\ last.op = "call"
        /\ last' = Call("to_geopandas", last.w, last.arg, r.raised, r)
        /\ UNCHANGED <<heap, self>>

Next == HandleDraw \/ Explore \/ UpdateHtml

Spec == Init /\ [][Next]_vars

\* the handler also called directly, with any GeoJSON feature
NextDirect == HandleDraw \/ HandleDrawDirect \/ Explore

SpecDirect == Init /\ [][NextDirect]_vars

\* two widgets in one program
NextTwo == HandleDraw

SpecTwo == InitTwo /\ [][NextTwo]_vars

\* the table builder on its own
NextTable == ToGeopandas

SpecTable == InitTable /\ [][NextTable]_vars

----------------------------------------------------------------------------
\* Properties

LayersOfKind(s, kind) == SelectSeq(s.m.layers, LAMBDA l : l.kind = kind)

InfoControls(s) == SelectSeq(s.m.controls, LAMBDA c : c.kind = "WidgetControl")

DrawnKinds == {"Polygon", "Point", "LineString"}

\* C1: every draw event resets the widget: after it the active layer list is
\* empty, no result layer is on the map, the region overlay held before is
\* off the map, and the map's only region overlay is the new one, which
\* shows the drawn shape.
C1_DrawResets ==
    [][last'.op = "draw" =>
        LET old == self[last'.w]
            new == self'[last'.w]
        IN  /\ last'.raised = "none"
            /\ new.active_layers = <<>>
            /\ LayersOfKind(new, "GeoData") = <<>>
            /\ \A i \in 1..Len(old.active_layers) :
                   Ref(old.active_layers[i]) \notin Refs(new.m.layers)
            /\ Truthy(old.current_geometry) =>
                   /\ Ref(old.current_geometry) \notin Refs(new.m.layers)
                   /\ Ref(old.current_geometry) # Ref(new.current_geometry)
            /\ Len(LayersOfKind(new, "GeoJSON")) = 1
            /\ Ref(LayersOfKind(new, "GeoJSON")[1]) = Ref(new.current_geometry)
            /\ new.current_geometry.data = last'.arg
            /\ new.dc.data = <<>>
            /\ Len(new.m.layers) = 2]_vars

\* a draw event handled while a region overlay and result layers were on the
\* map
C1_Witness ==
    /\ last.op = "draw"
    /\ last.ret.had_layers
    /\ last.ret.had_region
    /\ self[last.w].current_geometry.id = 2

\* C2 as claimed: after a render the map carries the layers of that render
\* only, and so does the active layer list.
C2_RenderReplaces ==
    (last.op = "explore" /\ last.raised = "none") =>
        /\ Refs(LayersOfKind(self[last.w], "GeoData")) = Refs(last.ret)
        /\ Refs(self[last.w].active_layers) = Refs(last.ret)

\* C3 as claimed: a render adds one layer per distinct dataset id of the
\* table, in first-seen order, the colours cycling through the palette.
C3_LayerPerDataset ==
    (last.op = "explore" /\ last.raised = "none") =>
        LET dataset_ids == Unique(last.arg)
        IN  /\ Len(last.ret) = Len(dataset_ids)
            /\ \A k \in 1..Len(last.ret) :
                  /\ last.ret[k].name.dataset.v = dataset_ids[k]
                  /\ last.ret[k].color = to_hex(tab10[((k - 1) % Len(tab10)) + 1])

\* the spatial kinds from which a geometry is built
GoodSpatial(kind) == SpatialKinds[kind[2]] \in {"bbox", "gpolygon"}

\* the geometry that the metadata of granule n describes
ExpectedShape(n, kind) ==
    IF SpatialKinds[kind[2]] = "bbox"
    THEN [kind |-> "Polygon",
          ring |-> << <<n + 2, 0>>, <<n + 2, 1>>, <<n, 1>>, <<n, 0>>, <<n + 2, 0>> >>]
    ELSE IF SpatialKinds[kind[2]] = "gpolygon"
    THEN [kind |-> "Polygon",
          ring |-> << <<n, 0>>, <<n + 1, 0>>, <<n, 1>>, <<n, 0>> >>]
    ELSE NoShape

\* the result list with every record's spatial metadata a bounding rectangle
Repaired(kinds) == [i \in 1..Len(kinds) |-> <<kinds[i][1], 1, kinds[i][3]>>]

\* C4: a record without usable spatial metadata never aborts to_geopandas:
\* the call raises exactly when it raises for the same list with that
\* metadata in order, and when it returns the table has one row per record,
\* a null geometry in the row of each such record and, in every other row,
\* the geometry of the row's own metadata.
C4_BadSpatialKeepsRow ==
    (last.op = "to_geopandas"
        /\ \E i \in 1..Len(last.arg.kinds) : ~GoodSpatial(last.arg.kinds[i])) =>
        LET kinds == last.arg.kinds
            g     == ColumnIndex(last.ret, K_geometry)
        IN  /\ last.raised =
                  to_geopandas(MakeResults(Repaired(kinds)), last.arg.fields).raised
            /\ last.raised \in {"none", "KeyError"}
            /\ Len(last.arg.fields) = 0 => last.raised = "none"
            /\ last.raised = "none" =>
                  /\ Len(last.ret.rows) = Len(kinds)
                  /\ \A i \in 1..Len(kinds) :
                        last.ret.rows[i][g] = ExpectedShape(i, kinds[i])

\* a table built from a record without spatial metadata followed by one
\* with a bounding rectangle
C4_Witness ==
    /\ last.op = "to_geopandas"
    /\ last.raised = "none"
    /\ Len(last.arg.kinds) = 2
    /\ SpatialKinds[last.arg.kinds[1][2]] = "missing"
    /\ SpatialKinds[last.arg.kinds[2][2]] = "bbox"
    /\ Len(last.ret.rows) = 2

\* C5 as claimed: to_geopandas on an empty result list returns a table
\* without rows that has every default column.
C5_EmptyResults ==
    (last.op = "to_geopandas" /\ Len(last.arg.kinds) = 0 /\ Len(last.arg.fields) = 0) =>
        /\ last.raised = "none"
        /\ Len(last.ret.rows) = 0
        /\ \A k \in 1..Len(default_fields) : InSeq(last.ret.columns, default_fields[k])

\* C6 as claimed: a draw event of another geometry kind than Polygon, Point
\* and LineString raises nothing, leaves the search parameters as they were
\* and leaves the region (roi) unset.
C6_UnsupportedKind ==
    [][(last'.op = "draw"
            /\ last'.arg.geometry.type \notin DrawnKinds) =>
        /\ last'.raised = "none"
        /\ heap' = heap
        /\ self'[last'.w].roi = NoneValue]_vars

\* C7: a widget's map holds at most one info-panel control, the widget's
\* overview; a hover event puts a new control there in place of the one
\* shown before.
C7_OneInfoPanel ==
    [][\A w \in Widgets :
        LET old == self[w]
            new == self'[w]
        IN  /\ Len(InfoControls(new)) <= 1
            /\ \A i \in 1..Len(InfoControls(new)) :
                   Ref(InfoControls(new)[i]) = Ref(new.overview)
            /\ (last'.op = "hover" /\ last'.w = w) =>
                   /\ last'.raised = "none"
                   /\ Len(InfoControls(new)) = 1
                   /\ Ref(new.overview) \notin Refs(old.m.controls)
                   /\ Truthy(old.overview) =>
                          Ref(old.overview) \notin Refs(new.m.controls)]_vars

\* a hover event handled while an info panel was shown
C7_Witness ==
    /\ last.op = "hover"
    /\ self[last.w].overview.id = 2
    /\ Len(InfoControls(self[last.w])) = 1

\* the allow-list a call of to_geopandas applies
AllowList(fields) == IF Len(fields) = 0 THEN default_fields ELSE fields

\* the position of name in s, beyond the end when it is not there
Position(s, name) ==
    IF InSeq(s, name) THEN CHOOSE i \in 1..Len(s) : s[i] = name ELSE Len(s) + 1

\* rows are in input order: row i carries the size of record i
RowsInInputOrder(call) ==
    /\ Len(call.ret.rows) = Len(call.arg.kinds)
    /\ InSeq(call.ret.columns, K_size) =>
          \A i \in 1..Len(call.ret.rows) :
              call.ret.rows[i][ColumnIndex(call.ret, K_size)].v = GranuleSize(i)

\* C8 as claimed: the columns of the table are in the order of the
\* allow-list, whatever the key order of the records, and the rows in input
\* order.
C8_AllowListOrder ==
    (last.op = "to_geopandas" /\ last.raised = "none") =>
        /\ \A a, b \in 1..Len(last.ret.columns) :
              a < b => Position(AllowList(last.arg.fields), last.ret.columns[a])
                       < Position(AllowList(last.arg.fields), last.ret.columns[b])
        /\ RowsInInputOrder(last)

\* the column names of the records' fields in the order in which the fields
\* first occur: record by record, in each record the top-level scalar
\* fields before the fields of its nested mappings
FieldOrder(kinds) ==
    LET results == MakeResults(kinds)
        tops(r) == SelectSeq(r, LAMBDA e : ~e.nested)
        subs(r) == SelectSeq(r, LAMBDA e : e.nested)
        names(r) ==
            [j \in 1..Len(tops(r)) |-> FlattenName(<<tops(r)[j].key>>)]
            \o Flatten([j \in 1..Len(subs(r)) |->
                          [k \in 1..Len(subs(r)[j].sub) |->
                              FlattenName(subs(r)[j].sub[k].path)]])
    IN  Flatten([i \in 1..Len(results) |-> names(results[i])])

\* C8, amended: the retained columns are in the order in which their fields
\* first occur in the input records, the geometry column last; each is in
\* the allow-list; the rows are in input order.
C8_RecordOrder ==
    (last.op = "to_geopandas" /\ last.raised = "none") =>
        LET cols  == last.ret.columns
            order == FieldOrder(last.arg.kinds)
        IN  /\ cols[Len(cols)] = K_geometry
            /\ \A a, b \in 1..(Len(cols) - 1) :
                  a < b => Position(order, cols[a]) < Position(order, cols[b])
            /\ \A a \in 1..(Len(cols) - 1) :
                  /\ InSeq(order, cols[a])
                  /\ InSeq(AllowList(last.arg.fields), cols[a])
            /\ RowsInInputOrder(last)

\* a table whose columns are not in the order of the allow-list that was
\* applied
C8_Witness ==
    /\ last.op = "to_geopandas"
    /\ last.raised = "none"
    /\ Len(last.arg.kinds) = 2
    /\ last.arg.kinds[1][3] # last.arg.kinds[2][3]
    /\ \E a, b \in 1..Len(last.ret.columns) :
          /\ a < b
          /\ Position(AllowList(last.arg.fields), last.ret.columns[a])
             > Position(AllowList(last.arg.fields), last.ret.columns[b])

\* C9 as claimed: of two widgets constructed without a params argument, a
\* draw event of one never changes the search parameters of the other.
C9_IndependentParams ==
    [][\A w, v \in Widgets :
        (/\ w # v
         /\ self[w].search_params = DefaultParams
         /\ self[v].search_params = DefaultParams
         /\ last'.op = "draw" /\ last'.w = w) =>
            heap'[self'[v].search_params] = heap[self[v].search_params]]_vars

\* the search-parameter key a drawn kind is stored under
KeyOf(type) ==
    CASE type = "Polygon" -> "polygon"
      [] type = "Point" -> "point"
      [] type = "LineString" -> "line"

\* C10: a draw event of a supported kind stores the region's coordinates
\* under the key of its kind and leaves the other keys as they were, so the
\* coordinates of regions of other kinds drawn before stay in the search
\* parameters.
C10_OnlyOwnKey ==
    [][(last'.op = "draw"
            /\ last'.arg.geometry.type \in DrawnKinds) =>
        LET d    == heap[self[last'.w].search_params]
            dnew == heap'[self'[last'.w].search_params]
            key  == KeyOf(last'.arg.geometry.type)
        IN  /\ dnew[key].t = "coords"
            /\ dnew[key] = self'[last'.w].roi
            /\ key = "polygon" =>
                  dnew[key].v = << <<0, 0>>, <<2, 0>>, <<0, 2>>, <<0, 0>> >>
            /\ key # "polygon" => dnew[key].v = last'.arg.geometry.coordinates
            /\ \A k \in ParamKeys \ {key} : dnew[k] = d[k]]_vars

\* a line drawn after a polygon and a point: the parameters hold all three
C10_Witness ==
    /\ last.op = "draw"
    /\ last.arg.geometry.type = "LineString"
    /\ \A k \in ParamKeys : heap[self[last.w].search_params][k].t = "coords"
====
